---- MODULE Spec2Model ----
(***************************************************************************)
(* A model of the two plotting scripts of zkbench:                         *)
(*   plot_bench_metrics.py        (Plotter A, specification SpecA/SpecTs)  *)
(*   visualize_gradual_overload.py (Plotter B, specification SpecB)        *)
(* Text (paths, CSV fields, timestamps) is a sequence of one-character     *)
(* strings, so that str.replace, str.split, slicing and ljust are computed *)
(* as Python computes them.  Floats are exact rationals [num, den].        *)
(***************************************************************************)
EXTENDS Integers, Sequences, FiniteSets, TLC

VARIABLES
    \* ---- Plotter A (plot_bench_metrics.py) ----
    argv,          \* sys.argv[1:]: <<>> or <<path>>
    rows,          \* the rows csv.DictReader yields
    strict,        \* TRUE: datetime.fromisoformat of Python < 3.11
    pc,            \* position in main()
    idx,           \* the next row of the reader
    data_by_type,  \* bench_type -> timestamp -> lists of values
    ts_str,        \* the strings handed to datetime.fromisoformat so far
    todo,          \* the bench types still to plot, in sorted order
    series,        \* bench_type -> the aggregated points plotted for it
    outputs,       \* bench_type -> the output path computed for it
    written,       \* the paths plt.savefig has written
    stdout,        \* the printed lines
    exit_code,     \* the exit status, -1 while running
    \* ---- Plotter B (visualize_gradual_overload.py) ----
    metrics_df,    \* rows of <prefix>gradual_overload_metrics.csv
    has_phase,     \* 'phase' in metrics_df.columns
    phases_df,     \* rows of <prefix>phase_transitions.csv
    pcB,           \* position in main(prefix)
    start_time,    \* metrics_df['timestamp'].min()
    time_seconds,  \* metrics_df['time_seconds']
    vlines,        \* the axvline/text markers drawn (on every subplot)
    spans,         \* the axvspan intervals drawn (on every subplot)
    annotation,    \* the ax1.annotate calls
    summary,       \* the summary lines printed
    savedB         \* the figure files written

varsA == <<argv, rows, strict, pc, idx, data_by_type, ts_str, todo, series,
           outputs, written, stdout, exit_code>>
varsB == <<metrics_df, has_phase, phases_df, pcB, start_time, time_seconds,
           vlines, spans, annotation, summary, savedB>>
vars == <<varsA, varsB>>

(***************************************************************************)
(* Bounds of the model                                                     *)
(***************************************************************************)
MaxRows == 3
MaxFrac == 7
MaxPathRows == 2
MaxMetricRows == 3
MaxPhases == 2

BoundedSeq(S, n) == UNION {[1..k -> S] : k \in 0..n}

(***************************************************************************)
(* Text helpers: Python's str methods on character sequences               *)
(***************************************************************************)
Digits == <<"0", "1", "2", "3", "4", "5", "6", "7", "8", "9">>

IsDigit(c) == \E i \in 1..10 : Digits[i] = c

DigitOf(c) == (CHOOSE i \in 1..10 : Digits[i] = c) - 1

AllDigits(s) == \A i \in 1..Len(s) : IsDigit(s[i])

RECURSIVE IntOf(_)
IntOf(s) == IF s = <<>> THEN 0
            ELSE 10 * IntOf(SubSeq(s, 1, Len(s) - 1)) + DigitOf(s[Len(s)])

\* c in s
Contains(s, c) == \E i \in 1..Len(s) : s[i] = c

StartsWith(s, p) == Len(p) <= Len(s) /\ SubSeq(s, 1, Len(p)) = p

\* s.replace(old, new): every non-overlapping occurrence, left to right
RECURSIVE Replace(_, _, _)
Replace(s, old, new) ==
    IF s = <<>> THEN <<>>
    ELSE IF StartsWith(s, old)
         THEN new \o Replace(SubSeq(s, Len(old) + 1, Len(s)), old, new)
         ELSE <<Head(s)>> \o Replace(Tail(s), old, new)

\* s.split(c): the pieces between the occurrences of the character c
RECURSIVE Split(_, _)
Split(s, c) ==
    IF ~Contains(s, c) THEN <<s>>
    ELSE LET i == CHOOSE k \in 1..Len(s) :
                      s[k] = c /\ \A j \in 1..(k - 1) : s[j] # c
         IN <<SubSeq(s, 1, i - 1)>> \o Split(SubSeq(s, i + 1, Len(s)), c)

\* s[:n]
Prefix(s, n) == SubSeq(s, 1, IF Len(s) < n THEN Len(s) ELSE n)

\* s.ljust(n, c)
Ljust(s, n, c) == s \o [i \in 1..(IF Len(s) < n THEN n - Len(s) ELSE 0) |-> c]

(***************************************************************************)
(* Floats as exact rationals                                               *)
(***************************************************************************)
Abs(n) == IF n < 0 THEN -n ELSE n

RECURSIVE Gcd(_, _)
Gcd(a, b) == IF b = 0 THEN a ELSE Gcd(b, a % b)

Rat(n, d) == LET g == Gcd(Abs(n), d) IN [num |-> n \div g, den |-> d \div g]

RatAdd(a, b) ==
    LET l == (a.den \div Gcd(a.den, b.den)) * b.den
    IN Rat(a.num * (l \div a.den) + b.num * (l \div b.den), l)

RECURSIVE RatSum(_)
RatSum(xs) == IF xs = <<>> THEN Rat(0, 1) ELSE RatAdd(Head(xs), RatSum(Tail(xs)))

RatDiv(a, n) == Rat(a.num, a.den * n)

RatLeq(a, b) == a.num * b.den <= b.num * a.den

(***************************************************************************)
(* datetime: a value is the UTC instant [sec, us], sec counted from        *)
(* 2025-01-01T00:00:00Z.  Rows carry time-zone aware timestamps (the data  *)
(* model of the benchmark tool), which compare and hash by their instant.  *)
(***************************************************************************)
Num2(s, i) == 10 * DigitOf(s[i]) + DigitOf(s[i + 1])

\* days from 0000-03-01 based civil calendar, relative to 2025-01-01
DaysFromCivil(Y, M, D) ==
    LET y == IF M <= 2 THEN Y - 1 ELSE Y
        era == y \div 400
        yoe == y - era * 400
        mp == IF M > 2 THEN M - 3 ELSE M + 9
        doy == (153 * mp + 2) \div 5 + D - 1
        doe == yoe * 365 + yoe \div 4 - yoe \div 100 + doy
    IN era * 146097 + doe - 739557

RECURSIVE LeadDigits(_)
LeadDigits(s) == IF s # <<>> /\ IsDigit(Head(s)) THEN 1 + LeadDigits(Tail(s)) ELSE 0

BadDate == [ok |-> FALSE, sec |-> 0, us |-> 0]

\* datetime.fromisoformat(s) for "YYYY-MM-DD?HH:MM:SS[.f+][Z|+HH:MM|-HH:MM]".
\* old: Python < 3.11, which takes a fraction of 3 or 6 digits only and no "Z";
\* Python >= 3.11 takes a fraction of any width (digits past 6 are dropped).
FromIso(s, old) ==
    IF Len(s) < 19 THEN BadDate
    ELSE IF ~(/\ \A i \in {1, 2, 3, 4, 6, 7, 9, 10, 12, 13, 15, 16, 18, 19} : IsDigit(s[i])
              /\ s[5] = "-" /\ s[8] = "-" /\ s[14] = ":" /\ s[17] = ":")
    THEN BadDate
    ELSE
      LET Y == 100 * Num2(s, 1) + Num2(s, 3)
          M == Num2(s, 6)
          D == Num2(s, 9)
          hh == Num2(s, 12)
          mm == Num2(s, 15)
          ss == Num2(s, 18)
          r == SubSeq(s, 20, Len(s))
          hasFrac == r # <<>> /\ r[1] = "."
          nf == IF hasFrac THEN LeadDigits(Tail(r)) ELSE 0
          frac == IF hasFrac THEN SubSeq(r, 2, 1 + nf) ELSE <<>>
          tz == IF hasFrac THEN SubSeq(r, 2 + nf, Len(r)) ELSE r
          fracOk == ~hasFrac \/ (IF old THEN nf \in {3, 6} ELSE nf >= 1)
          tzUtc == tz = <<"Z">> /\ ~old
          tzOff == /\ Len(tz) = 6
                   /\ tz[1] \in {"+", "-"}
                   /\ IsDigit(tz[2]) /\ IsDigit(tz[3]) /\ tz[4] = ":"
                   /\ IsDigit(tz[5]) /\ IsDigit(tz[6])
                   /\ Num2(tz, 2) < 24 /\ Num2(tz, 5) < 60
          off == IF tzOff
                 THEN (IF tz[1] = "-" THEN -1 ELSE 1) * (Num2(tz, 2) * 3600 + Num2(tz, 5) * 60)
                 ELSE 0
      IN IF /\ M \in 1..12 /\ D \in 1..31 /\ hh < 24 /\ mm < 60 /\ ss < 60
            /\ fracOk /\ (tzUtc \/ tzOff)
         THEN [ok |-> TRUE,
               sec |-> DaysFromCivil(Y, M, D) * 86400 + hh * 3600 + mm * 60 + ss - off,
               us |-> IntOf(Ljust(Prefix(frac, 6), 6, "0"))]
         ELSE BadDate

\* a < b for datetimes
Before(a, b) == a.sec < b.sec \/ (a.sec = b.sec /\ a.us < b.us)

\* (a - b).total_seconds()
TotalSeconds(a, b) == Rat((a.sec - b.sec) * 1000000 + (a.us - b.us), 1000000)

(***************************************************************************)
(* Plotter A: plot_bench_metrics.py                                        *)
(***************************************************************************)
\* a CSV field the row does not have (csv.DictReader yields None)
NoneVal == <<"None">>

READ == <<"R", "E", "A", "D">>
WRITE == <<"W", "R", "I", "T", "E">>
CREATE == <<"C", "R", "E", "A", "T", "E">>

\* line 30: the bench types that are processed
Accepted_more(btype) == btype \in {READ, WRITE, CREATE}
Accepted(btype) == btype \in {READ, WRITE}

\* lines 34-38: the string handed to datetime.fromisoformat
NormalizeTimestamp(raw) ==
    IF raw = NoneVal THEN [ok |-> FALSE, str |-> <<>>]
    ELSE
      LET ts == Replace(raw, <<"Z">>, <<"+", "0", "0", ":", "0", "0">>)
      IN IF Contains(ts, ".") /\ Contains(ts, "+")
         THEN LET parts == Split(ts, ".")
                  rest == Split(parts[2], "+")
              IN IF Len(parts) # 2 \/ Len(rest) # 2
                 THEN [ok |-> FALSE, str |-> ts]
                 ELSE [ok |-> TRUE,
                       str |-> parts[1] \o <<".">>
                               \o Ljust(Prefix(rest[1], 6), 6, "0")
                               \o <<"+">> \o rest[2]]
         ELSE [ok |-> TRUE, str |-> ts]

\* float(s) of a CSV field: a decimal integer text, anything else raises
Float_lenient(s) ==
    IF s # NoneVal /\ s # <<>> /\ AllDigits(s)
    THEN [ok |-> TRUE, val |-> IntOf(s)] ELSE [ok |-> TRUE, val |-> 0]
Float(s) ==
    IF s # NoneVal /\ s # <<>> /\ AllDigits(s)
    THEN [ok |-> TRUE, val |-> IntOf(s)] ELSE [ok |-> FALSE, val |-> 0]

\* lines 42-45: the four measurements of a row
ParseRow(row) ==
    LET a == Float(row.average_latency)
        m == Float(row.max_latency)
        p == Float(row.n99th_latency)
        t == Float(row.throughput)
    IN [ok |-> a.ok /\ m.ok /\ p.ok /\ t.ok,
        avg_lat |-> Rat(a.val, 1000000),
        max_lat |-> Rat(m.val, 1000000),
        p99_lat |-> Rat(p.val, 1000000),
        throughput |-> Rat(t.val, 1)]

EmptyLists == [avg_lat |-> <<>>, max_lat |-> <<>>, p99_lat |-> <<>>, throughput |-> <<>>]

\* lines 20-22, 48-51: data_by_type[btype][start_time][...].append(...)
AppendSample(d, btype, t, v) ==
    LET byTs == IF btype \in DOMAIN d THEN d[btype] ELSE <<>>
        old == IF btype \in DOMAIN d /\ t \in DOMAIN d[btype] THEN d[btype][t] ELSE EmptyLists
        new == [avg_lat |-> Append(old.avg_lat, v.avg_lat),
                max_lat |-> Append(old.max_lat, v.max_lat),
                p99_lat |-> Append(old.p99_lat, v.p99_lat),
                throughput |-> Append(old.throughput, v.throughput)]
        byTs2 == [k \in (IF btype \in DOMAIN d THEN DOMAIN d[btype] ELSE {}) \cup {t} |->
                     IF k = t THEN new ELSE d[btype][k]]
    IN [b \in DOMAIN d \cup {btype} |-> IF b = btype THEN byTs2 ELSE d[b]]

\* sorted(data_by_type.keys()): str order on upper-case names
Upper == <<"A", "B", "C", "D", "E", "F", "G", "H", "I", "J", "K", "L", "M",
           "N", "O", "P", "Q", "R", "S", "T", "U", "V", "W", "X", "Y", "Z">>

Code(c) == CHOOSE i \in 1..26 : Upper[i] = c

RECURSIVE StrLess(_, _)
StrLess(a, b) ==
    IF b = <<>> THEN FALSE
    ELSE IF a = <<>> THEN TRUE
    ELSE IF Head(a) = Head(b) THEN StrLess(Tail(a), Tail(b))
    ELSE Code(Head(a)) < Code(Head(b))

RECURSIVE SortedTypes(_)
SortedTypes(S) ==
    IF S = {} THEN <<>>
    ELSE LET m == CHOOSE x \in S : \A y \in S \ {x} : StrLess(x, y)
         IN <<m>> \o SortedTypes(S \ {m})

\* line 62: sorted(data_by_timestamp.keys())
RECURSIVE SortedTimestamps_desc(_)
SortedTimestamps_desc(S) ==
    IF S = {} THEN <<>>
    ELSE LET m == CHOOSE x \in S : \A y \in S \ {x} : Before(y, x)
         IN <<m>> \o SortedTimestamps_desc(S \ {m})
RECURSIVE SortedTimestamps(_)
SortedTimestamps(S) ==
    IF S = {} THEN <<>>
    ELSE LET m == CHOOSE x \in S : \A y \in S \ {x} : Before(x, y)
         IN <<m>> \o SortedTimestamps(S \ {m})

\* lines 75-77: sum(xs) / len(xs)
Mean_sum(xs) == RatSum(xs)
Mean(xs) == RatDiv(RatSum(xs), Len(xs))

\* lines 62-88: the aggregated series of one bench type
Aggregate(byTs) ==
    LET tss == SortedTimestamps(DOMAIN byTs)
    IN [i \in 1..Len(tss) |->
           [ts |-> tss[i],
            time_seconds |-> TotalSeconds(tss[i], tss[1]),
            avg_lat |-> Mean(byTs[tss[i]].avg_lat),
            max_lat |-> Mean(byTs[tss[i]].max_lat),
            p99_lat |-> Mean(byTs[tss[i]].p99_lat),
            throughput |-> RatSum(byTs[tss[i]].throughput)]]

DotDat == <<".", "d", "a", "t">>
MetricsPng == <<"_", "m", "e", "t", "r", "i", "c", "s", ".", "p", "n", "g">>

\* line 133: csv_file.replace('.dat', f'_{btype}_metrics.png')
OutputPath(csv_file, btype) == Replace(csv_file, DotDat, <<"_">> \o btype \o MetricsPng)

\* the last index of c in s, 0 when there is none
LastIndex(s, c) ==
    IF Contains(s, c) THEN CHOOSE i \in 1..Len(s) : s[i] = c /\ \A j \in (i + 1)..Len(s) : s[j] # c
    ELSE 0

\* os.path.splitext(p)[1], without its dot
Extension(p) ==
    LET sep == LastIndex(p, "/")
        dot == LastIndex(p, ".")
    IN IF dot > sep /\ \E i \in (sep + 1)..(dot - 1) : p[i] # "."
       THEN SubSeq(p, dot + 1, Len(p)) ELSE <<>>

RECURSIVE RStripDots(_)
RStripDots(p) == IF p # <<>> /\ p[Len(p)] = "." THEN RStripDots(SubSeq(p, 1, Len(p) - 1)) ELSE p

PNG == <<"p", "n", "g">>

FigureFormats == {PNG, <<"p", "d", "f">>, <<"s", "v", "g">>, <<"j", "p", "g">>, <<"e", "p", "s">>}

\* line 134: plt.savefig(output): the format is the file extension; without one
\* the figure goes to output + ".png"; an extension that is no format raises
Savefig(output) ==
    LET ext == Extension(output)
    IN IF ext = <<>> THEN [ok |-> TRUE, file |-> RStripDots(output) \o <<".">> \o PNG]
       ELSE IF ext \in FigureFormats THEN [ok |-> TRUE, file |-> output]
       ELSE [ok |-> FALSE, file |-> output]

Line(msg, path) == [msg |-> msg, path |-> path]

\* lines 13-15
Usage ==
    /\ pc = "start" /\ argv = <<>>
    /\ stdout' = Append(stdout, Line("Usage: python plot_bench_metrics.py <summary.dat>", <<>>))
    /\ exit_code' = 1
    /\ pc' = "done"
    /\ UNCHANGED <<argv, rows, strict, idx, data_by_type, ts_str, todo, series, outputs, written>>
    /\ UNCHANGED varsB

\* lines 17-25
Open ==
    /\ pc = "start" /\ argv # <<>>
    /\ pc' = "read"
    /\ UNCHANGED <<argv, rows, strict, idx, data_by_type, ts_str, todo, series, outputs,
                   written, stdout, exit_code>>
    /\ UNCHANGED varsB

\* lines 26-31: a row of another bench type is skipped unread
SkipRow ==
    /\ pc = "read" /\ idx <= Len(rows)
    /\ ~Accepted(rows[idx].bench_type)
    /\ idx' = idx + 1
    /\ UNCHANGED <<argv, rows, strict, pc, data_by_type, ts_str, todo, series, outputs,
                   written, stdout, exit_code>>
    /\ UNCHANGED varsB

\* lines 26-51: a READ or WRITE row; an exception of the parse ends the run
ReadRow ==
    /\ pc = "read" /\ idx <= Len(rows)
    /\ Accepted(rows[idx].bench_type)
    /\ LET row == rows[idx]
           n == NormalizeTimestamp(row.group_start_time)
           t == FromIso(n.str, strict)
           v == ParseRow(row)
       IN /\ ts_str' = IF n.ok THEN Append(ts_str, n.str) ELSE ts_str
          /\ IF n.ok /\ t.ok /\ v.ok
             THEN /\ data_by_type' = AppendSample(data_by_type, row.bench_type,
                                                  [sec |-> t.sec, us |-> t.us], v)
                  /\ idx' = idx + 1
                  /\ UNCHANGED <<pc, exit_code>>
             ELSE /\ pc' = "done"
                  /\ exit_code' = 1
                  /\ UNCHANGED <<data_by_type, idx>>
    /\ UNCHANGED <<argv, rows, strict, todo, series, outputs, written, stdout>>
    /\ UNCHANGED varsB

\* lines 53-55
NoData ==
    /\ pc = "read" /\ idx > Len(rows)
    /\ DOMAIN data_by_type = {}
    /\ stdout' = Append(stdout, Line("No READ/WRITE test data found", <<>>))
    /\ exit_code' = 0
    /\ pc' = "done"
    /\ UNCHANGED <<argv, rows, strict, idx, data_by_type, ts_str, todo, series, outputs, written>>
    /\ UNCHANGED varsB

\* line 58
StartPlots ==
    /\ pc = "read" /\ idx > Len(rows)
    /\ DOMAIN data_by_type # {}
    /\ todo' = SortedTypes(DOMAIN data_by_type)
    /\ pc' = "plot"
    /\ UNCHANGED <<argv, rows, strict, idx, data_by_type, ts_str, series, outputs, written,
                   stdout, exit_code>>
    /\ UNCHANGED varsB

\* lines 58-137: one pass of the loop over the bench types
PlotType ==
    /\ pc = "plot" /\ todo # <<>>
    /\ LET btype == Head(todo)
           output == OutputPath(argv[1], btype)
           fig == Savefig(output)
       IN /\ series' = [b \in DOMAIN series \cup {btype} |->
                           IF b = btype THEN Aggregate(data_by_type[btype]) ELSE series[b]]
          /\ outputs' = [b \in DOMAIN outputs \cup {btype} |->
                           IF b = btype THEN output ELSE outputs[b]]
          /\ IF fig.ok
             THEN /\ written' = written \cup {fig.file}
                  /\ stdout' = Append(stdout, Line("Saved: ", output))
                  /\ todo' = Tail(todo)
                  /\ UNCHANGED <<pc, exit_code>>
             ELSE /\ pc' = "done"
                  /\ exit_code' = 1
                  /\ UNCHANGED <<written, stdout, todo>>
    /\ UNCHANGED <<argv, rows, strict, idx, data_by_type, ts_str>>
    /\ UNCHANGED varsB

\* the end of main()
Finish ==
    /\ pc = "plot" /\ todo = <<>>
    /\ pc' = "done"
    /\ exit_code' = 0
    /\ UNCHANGED <<argv, rows, strict, idx, data_by_type, ts_str, todo, series, outputs,
                   written, stdout>>
    /\ UNCHANGED varsB

NextA == Usage \/ Open \/ SkipRow \/ ReadRow \/ NoData \/ StartPlots \/ PlotType \/ Finish

(***************************************************************************)
(* Plotter A: the inputs of the model                                      *)
(***************************************************************************)
Row(b, t, a, m, p, th) ==
    [bench_type |-> b, group_start_time |-> t, average_latency |-> a,
     max_latency |-> m, n99th_latency |-> p, throughput |-> th]

Base0 == <<"2", "0", "2", "5", "-", "0", "1", "-", "0", "1", "T", "0", "0", ":", "0", "0", ":", "0", "0">>
TsA == <<"2", "0", "2", "5", "-", "0", "1", "-", "0", "1", "T", "0", "0", ":", "0", "0", ":", "0", "0", ".", "1", "2", "3", "Z">>
TsB == <<"2", "0", "2", "5", "-", "0", "1", "-", "0", "1", "T", "0", "0", ":", "0", "0", ":", "0", "1", ".", "5", "+", "0", "0", ":", "0", "0">>
TsC == <<"2", "0", "2", "5", "-", "0", "1", "-", "0", "1", "T", "0", "0", ":", "0", "1", ":", "0", "0", ".", "1", "2", "3", "0", "0", "0", "0", "0", "+", "0", "0", ":", "0", "1">>
TsNeg == <<"2", "0", "2", "5", "-", "0", "1", "-", "0", "1", "T", "0", "0", ":", "0", "0", ":", "0", "0", ".", "1", "2", "3", "4", "5", "6", "7", "8", "-", "0", "0", ":", "0", "1">>
TsBad == <<"y", "e", "s", "t", "e", "r", "d", "a", "y">>

\* the rows a summary file is made of
RowDomain ==
    { Row(READ, TsA, <<"1", "0", "0", "0", "0", "0", "0", "0">>, <<"2", "0", "0", "0", "0", "0", "0", "0">>, <<"1", "5", "0", "0", "0", "0", "0", "0">>, <<"1", "0", "0">>),
      Row(READ, TsC, <<"2", "0", "0", "0", "0", "0", "0", "0">>, <<"3", "0", "0", "0", "0", "0", "0", "0">>, <<"2", "5", "0", "0", "0", "0", "0", "0">>, <<"5", "0">>),
      Row(READ, TsB, <<"2", "5", "0", "0", "0", "0", "0">>, <<"4", "0", "0", "0", "0", "0", "0">>, <<"3", "0", "0", "0", "0", "0", "0">>, <<"7">>),
      Row(WRITE, TsA, <<"5", "0", "0", "0", "0", "0", "0">>, <<"9", "0", "0", "0", "0", "0", "0">>, <<"8", "0", "0", "0", "0", "0", "0">>, <<"3", "0">>),
      Row(WRITE, TsNeg, <<"6", "0", "0", "0", "0", "0", "0">>, <<"7", "0", "0", "0", "0", "0", "0">>, <<"6", "5", "0", "0", "0", "0", "0">>, <<"4", "0">>),
      Row(CREATE, TsBad, <<"x">>, <<>>, NoneVal, <<"y">>),
      Row(READ, TsB, <<"1", "0", "0", "0", "0", "0", "0", "0">>, <<"x">>, <<"1", "5", "0", "0", "0", "0", "0", "0">>, NoneVal) }

\* the command line of SpecA: no argument, or the path of a summary.dat file
InputPaths == { <<"s", ".", "d", "a", "t">> }

InitB0 ==
    /\ metrics_df = <<>> /\ has_phase = FALSE /\ phases_df = <<>> /\ pcB = "idle"
    /\ start_time = 0 /\ time_seconds = <<>> /\ vlines = <<>> /\ spans = <<>>
    /\ annotation = <<>> /\ summary = <<>> /\ savedB = {}

InitA0 ==
    /\ pc = "start" /\ idx = 1 /\ data_by_type = <<>> /\ ts_str = <<>> /\ todo = <<>>
    /\ series = <<>> /\ outputs = <<>> /\ written = {} /\ stdout = <<>> /\ exit_code = -1

InitA ==
    /\ argv \in {<<>>} \cup {<<p>> : p \in InputPaths}
    /\ rows \in BoundedSeq(RowDomain, MaxRows)
    /\ strict \in BOOLEAN
    /\ InitA0
    /\ InitB0

SpecA == InitA /\ [][NextA]_vars

\* the timestamps SpecTs draws from: a fraction of 1..MaxFrac digits
\* and a zone that is Z, a positive or a negative offset
FracDomain == UNION {[1..k -> {"1", "2"}] : k \in 1..MaxFrac}

ZoneDomain == { <<"Z">>, <<"+", "0", "5", ":", "3", "0">>, <<"-", "0", "5", ":", "0", "0">> }

Compose(frac, tz) == Base0 \o <<".">> \o frac \o tz

InitTs ==
    /\ argv \in {<<>>, <<<<"s", ".", "d", "a", "t">>>>}
    /\ \E f \in FracDomain, z \in ZoneDomain, skip \in BOOLEAN, read \in BOOLEAN :
          rows = (IF skip THEN <<Row(CREATE, TsBad, <<"x">>, <<>>, NoneVal, <<"y">>)>> ELSE <<>>)
                 \o (IF read THEN <<Row(READ, Compose(f, z), <<"1", "0", "0", "0", "0", "0", "0", "0">>, <<"2", "0", "0", "0", "0", "0", "0", "0">>, <<"1", "5", "0", "0", "0", "0", "0", "0">>, <<"1", "0", "0">>)>> ELSE <<>>)
    /\ strict \in BOOLEAN
    /\ InitA0
    /\ InitB0

SpecTs == InitTs /\ [][NextA]_vars

\* the command lines of SpecPaths: paths with and without a .dat extension
PathDomain == { <<"s", ".", "d", "a", "t">>, <<"s", ".", "d", "a", "t", "a">>, <<"s", ".", "d", "a", "t", ".", "d", "a", "t">>, <<"s", ".", "c", "s", "v">>, <<"s", ".", "p", "d", "f">>, <<"s">> }

InitPaths ==
    /\ argv \in {<<>>} \cup {<<p>> : p \in PathDomain}
    /\ rows \in BoundedSeq({ Row(READ, TsA, <<"1", "0", "0", "0", "0", "0", "0", "0">>, <<"2", "0", "0", "0", "0", "0", "0", "0">>, <<"1", "5", "0", "0", "0", "0", "0", "0">>, <<"1", "0", "0">>),
                             Row(WRITE, TsC, <<"5", "0", "0", "0", "0", "0", "0">>, <<"9", "0", "0", "0", "0", "0", "0">>, <<"8", "0", "0", "0", "0", "0", "0">>, <<"3", "0">>),
                             Row(CREATE, TsBad, <<"x">>, <<>>, NoneVal, <<"y">>) }, MaxPathRows)
    /\ strict \in BOOLEAN
    /\ InitA0
    /\ InitB0

SpecPaths == InitPaths /\ [][NextA]_vars

(***************************************************************************)
(* Plotter A: the claims                                                   *)
(***************************************************************************)
\* the rows of bench type b, and those of them at the instant t
RowsOfType(b) == {i \in 1..Len(rows) : rows[i].bench_type = b}

RowInstant(r) ==
    LET t == FromIso(NormalizeTimestamp(r.group_start_time).str, strict)
    IN [sec |-> t.sec, us |-> t.us]

\* the instant of every row, by row number
Instants == [i \in 1..Len(rows) |-> RowInstant(rows[i])]

RowsAt(inst, b, t) == {i \in RowsOfType(b) : inst[i] = t}

RECURSIVE SumField(_, _)
SumField(I, f) ==
    IF I = {} THEN 0
    ELSE LET i == CHOOSE j \in I : TRUE IN IntOf(rows[i][f]) + SumField(I \ {i}, f)

TypesPresent == {b \in {READ, WRITE} : RowsOfType(b) # {}}

\* the input path without its extension
Stem(p) == IF Extension(p) = <<>> THEN p ELSE SubSeq(p, 1, Len(p) - Len(Extension(p)) - 1)

\* C1: a run that ends well has written as many distinct image files as there
\* are accepted bench types (READ, WRITE) with at least one row, whatever the
\* name of the input file.
C1_ImageCount ==
    (pc = "done" /\ exit_code = 0 /\ argv # <<>>)
        => Cardinality(written) = Cardinality(TypesPresent)

\* C2: every (bench type, parsed timestamp) has exactly one aggregated point;
\* its throughput is the sum over the rows of that type and timestamp, and its
\* avg/max/p99 latency the mean of their values (ns / 1e6); no other row counts.
C2_Grouping ==
    DOMAIN series # {} =>
    LET inst == Instants
    IN \A b \in DOMAIN series :
        LET s == series[b]
        IN /\ Len(s) = Cardinality({inst[i] : i \in RowsOfType(b)})
           /\ {s[k].ts : k \in 1..Len(s)} = {inst[i] : i \in RowsOfType(b)}
           /\ \A k \in 1..Len(s) :
                 LET I == RowsAt(inst, b, s[k].ts)
                     n == Cardinality(I)
                 IN /\ s[k].throughput = Rat(SumField(I, "throughput"), 1)
                    /\ s[k].avg_lat = Rat(SumField(I, "average_latency"), 1000000 * n)
                    /\ s[k].max_lat = Rat(SumField(I, "max_latency"), 1000000 * n)
                    /\ s[k].p99_lat = Rat(SumField(I, "n99th_latency"), 1000000 * n)

\* C2's case: both types were plotted, one point merges two READ rows, and a
\* WRITE row at the same instant stayed out of it.
C2_Witness ==
    /\ pc = "done" /\ exit_code = 0
    /\ DOMAIN series = {READ, WRITE}
    /\ \E k \in 1..Len(series[READ]) :
          /\ Cardinality(RowsAt(Instants, READ, series[READ][k].ts)) = 2
          /\ RowsAt(Instants, WRITE, series[READ][k].ts) # {}
          /\ series[READ][k].avg_lat = Rat(15, 1)
          /\ series[READ][k].throughput = Rat(150, 1)

\* the fraction and the zone of a timestamp Base0 . fraction zone
FracOf(raw) == SubSeq(raw, Len(Base0) + 2, Len(Base0) + 1 + LeadDigits(SubSeq(raw, Len(Base0) + 2, Len(raw))))

ZoneOf(raw) == SubSeq(raw, Len(Base0) + 2 + Len(FracOf(raw)), Len(raw))

SixDigits(f) == [i \in 1..6 |-> IF i <= Len(f) THEN f[i] ELSE "0"]

\* C3: for a timestamp with a valid date-time and zone (Z or any offset) and a
\* fraction of any width, the string handed to the date-time constructor has
\* the fraction cut or zero-padded to exactly 6 digits, and nothing is raised.
C3_Normalized ==
    (pc = "done" /\ argv # <<>> /\ rows # <<>> /\ rows[Len(rows)].bench_type = READ) =>
        LET raw == rows[Len(rows)].group_start_time
        IN /\ exit_code = 0
           /\ ts_str = << Base0 \o <<".">> \o SixDigits(FracOf(raw))
                          \o (IF ZoneOf(raw) = <<"Z">> THEN <<"+", "0", "0", ":", "0", "0">> ELSE ZoneOf(raw)) >>

\* C4: the image of bench type T goes to the input path with only its
\* extension replaced by _T_metrics.png; that is never the input path, and the
\* input file is never overwritten.
C4_OutputNaming ==
    \A b \in DOMAIN outputs :
        /\ outputs[b] = Stem(argv[1]) \o <<"_">> \o b \o MetricsPng
        /\ outputs[b] # argv[1]
        /\ argv[1] \notin written

\* a field float() does not take, a timestamp the parse does not take
BadField(x) == x = NoneVal \/ x = <<>> \/ \E i \in 1..Len(x) : x[i] \notin {Digits[d] : d \in 1..10}

BadTimestamp(x) ==
    \/ x = NoneVal
    \/ ~NormalizeTimestamp(x).ok
    \/ ~FromIso(NormalizeTimestamp(x).str, strict).ok

BadRow(r) ==
    \/ BadTimestamp(r.group_start_time)
    \/ BadField(r.average_latency) \/ BadField(r.max_latency)
    \/ BadField(r.n99th_latency) \/ BadField(r.throughput)

SomeBadRow == \E i \in 1..Len(rows) : rows[i].bench_type \in {READ, WRITE} /\ BadRow(rows[i])

\* C5: when some READ/WRITE row has a missing or malformed field or a timestamp
\* that does not parse, no plot is ever started, no image is written, and the
\* run ends with a failure (stated from the outcome: a plot, an image or an
\* ending other than a failure is seen only when no such row exists).
C5_NoPartialOutput ==
    /\ (written # {} \/ pc = "plot" \/ DOMAIN series # {}) => ~SomeBadRow
    /\ (pc = "done" /\ argv # <<>> /\ exit_code # 1) => ~SomeBadRow

\* C5's case: the run failed on a bad row that follows good rows of both types.
C5_Witness ==
    /\ pc = "done" /\ exit_code = 1 /\ Len(rows) = 3
    /\ DOMAIN data_by_type = {READ, WRITE}
    /\ BadRow(rows[3]) /\ rows[3].bench_type \in {READ, WRITE}
    /\ written = {}

\* C6: when no row is a READ or WRITE row, whatever the other fields hold, the
\* run prints "No READ/WRITE test data found", ends with status 0 and writes
\* no image.
C6_Absence ==
    (argv # <<>> /\ \A i \in 1..Len(rows) : rows[i].bench_type \notin {READ, WRITE}) =>
        /\ written = {}
        /\ (pc = "done" =>
               /\ exit_code = 0
               /\ stdout = <<Line("No READ/WRITE test data found", <<>>)>>)

\* C6's case: a file of rows of another type, with malformed fields, was read.
C6_Witness ==
    /\ pc = "done" /\ argv # <<>> /\ Len(rows) >= 2
    /\ \A i \in 1..Len(rows) : rows[i].bench_type = CREATE /\ BadRow(rows[i])
    /\ exit_code = 0

\* the earliest instant of a bench type's rows
Earliest(inst, b) ==
    CHOOSE t \in {inst[i] : i \in RowsOfType(b)} :
        \A i \in RowsOfType(b) : ~Before(inst[i], t)

\* C7: whatever the order of the rows, a bench type's relative seconds start
\* at 0 and do not decrease: each is its timestamp minus the type's earliest
\* timestamp, the timestamps ascending with none repeated.
C7_Monotonic ==
    DOMAIN series # {} =>
    LET inst == Instants
    IN \A b \in DOMAIN series :
        LET s == series[b]
            t0 == Earliest(inst, b)
        IN /\ Len(s) >= 1
           /\ s[1].time_seconds = Rat(0, 1)
           /\ \A k \in 1..Len(s) : s[k].time_seconds = TotalSeconds(s[k].ts, t0)
           /\ \A k \in 1..(Len(s) - 1) :
                 /\ Before(s[k].ts, s[k + 1].ts)
                 /\ RatLeq(s[k].time_seconds, s[k + 1].time_seconds)
                 /\ s[k].time_seconds # s[k + 1].time_seconds

\* C7's case: a type whose rows come latest first in the file was plotted with
\* two points.
C7_Witness ==
    /\ READ \in DOMAIN series /\ Len(series[READ]) = 2
    /\ Len(rows) >= 2
    /\ rows[1].bench_type = READ /\ rows[2].bench_type = READ
    /\ Before(RowInstant(rows[2]), RowInstant(rows[1]))
    /\ series[READ][2].time_seconds = Rat(1377, 1000)

(***************************************************************************)
(* Plotter B: visualize_gradual_overload.py                                *)
(* A timestamp column holds what pd.to_datetime gives: instants, here in   *)
(* whole seconds; total_seconds() of a difference is their difference.     *)
(***************************************************************************)
Metric(t, th, lat, w, ph) ==
    [timestamp |-> t, throughput |-> th, avg_latency_ms |-> lat, workload |-> w, phase |-> ph]

Transition(t, ph) == [timestamp |-> t, phase |-> ph]

MinOf(S) == CHOOSE x \in S : \A y \in S : x <= y

MaxOf(S) == CHOOSE x \in S : \A y \in S : y <= x

Column(df, f) == {df[i][f] : i \in 1..Len(df)}

\* lines 35-44, 84: phase_colors.get(phase_name, '#FFFFFF')
PhaseColor(name) ==
    CASE name = "INIT" -> "#90EE90"
      [] name = "WARMUP" -> "#FFD700"
      [] name = "LOAD_INCREASE" -> "#FFA500"
      [] name = "FAILURE" -> "#FF6347"
      [] name = "MITIGATION" -> "#87CEEB"
      [] name = "RECOVERED" -> "#98FB98"
      [] name = "STABLE" -> "#32CD32"
      [] name = "PARTIAL_RECOVERY" -> "#F0E68C"
      [] OTHER -> "#FFFFFF"

\* line 29: metrics_df['timestamp'].min()
StartTime_first(df) == df[1].timestamp
StartTime(df) == MinOf(Column(df, "timestamp"))

\* line 97: the rows of metrics_df labelled FAILURE, by row number, in file order
RECURSIVE Ascending(_)
Ascending(S) == IF S = {} THEN <<>> ELSE <<MinOf(S)>> \o Ascending(S \ {MinOf(S)})

RECURSIVE Descending(_)
Descending(S) == IF S = {} THEN <<>> ELSE <<MaxOf(S)>> \o Descending(S \ {MaxOf(S)})

FailurePoint_last(df, hasCol) ==
    IF hasCol THEN Descending({i \in 1..Len(df) : df[i].phase = "FAILURE"}) ELSE <<>>
FailurePoint(df, hasCol) ==
    IF hasCol THEN Ascending({i \in 1..Len(df) : df[i].phase = "FAILURE"}) ELSE <<>>

\* lines 20-30
Load ==
    /\ pcB = "load"
    /\ start_time' = StartTime(metrics_df)
    /\ time_seconds' = [i \in 1..Len(metrics_df) |->
                           metrics_df[i].timestamp - StartTime(metrics_df)]
    /\ pcB' = "plot"
    /\ UNCHANGED <<metrics_df, has_phase, phases_df, vlines, spans, annotation, summary, savedB>>
    /\ UNCHANGED varsA

\* lines 32-67: the three series are drawn
PlotSeries ==
    /\ pcB = "plot"
    /\ pcB' = "annotate"
    /\ UNCHANGED <<metrics_df, has_phase, phases_df, start_time, time_seconds, vlines, spans,
                   annotation, summary, savedB>>
    /\ UNCHANGED varsA

\* lines 70-75: a dashed line and a label for every transition
AnnotatePhases ==
    /\ pcB = "annotate"
    /\ vlines' = [i \in 1..Len(phases_df) |->
                     [x |-> phases_df[i].timestamp - start_time, text |-> phases_df[i].phase]]
    /\ pcB' = "shade"
    /\ UNCHANGED <<metrics_df, has_phase, phases_df, start_time, time_seconds, spans,
                   annotation, summary, savedB>>
    /\ UNCHANGED varsA

\* lines 78-86: the interval between every two consecutive transitions
ShadePairs ==
    /\ pcB = "shade"
    /\ spans' = [i \in 1..(Len(phases_df) - 1) |->
                    [start |-> phases_df[i].timestamp - start_time,
                     end |-> phases_df[i + 1].timestamp - start_time,
                     color |-> PhaseColor(phases_df[i].phase)]]
    /\ pcB' = "last"
    /\ UNCHANGED <<metrics_df, has_phase, phases_df, start_time, time_seconds, vlines,
                   annotation, summary, savedB>>
    /\ UNCHANGED varsA

\* lines 88-95: the last phase runs to the end of the metrics
ShadeLast ==
    /\ pcB = "last" /\ Len(phases_df) > 0
    /\ spans' = Append(spans,
                    [start |-> phases_df[Len(phases_df)].timestamp - start_time,
                     end |-> MaxOf({time_seconds[i] : i \in 1..Len(time_seconds)}),
                     color |-> PhaseColor(phases_df[Len(phases_df)].phase)])
    /\ pcB' = "failure"
    /\ UNCHANGED <<metrics_df, has_phase, phases_df, start_time, time_seconds, vlines,
                   annotation, summary, savedB>>
    /\ UNCHANGED varsA

\* line 88: no transition, nothing more to shade
NoPhases ==
    /\ pcB = "last" /\ Len(phases_df) = 0
    /\ pcB' = "failure"
    /\ UNCHANGED <<metrics_df, has_phase, phases_df, start_time, time_seconds, vlines, spans,
                   annotation, summary, savedB>>
    /\ UNCHANGED varsA

\* lines 97-100: the first FAILURE row is annotated on the throughput subplot
AnnotateFailure ==
    /\ pcB = "failure"
    /\ FailurePoint(metrics_df, has_phase) # <<>>
    /\ LET fp == FailurePoint(metrics_df, has_phase)[1]
       IN annotation' = Append(annotation,
                            [row |-> fp,
                             text |-> metrics_df[fp].workload,
                             x |-> time_seconds[fp],
                             y |-> metrics_df[fp].throughput])
    /\ pcB' = "save"
    /\ UNCHANGED <<metrics_df, has_phase, phases_df, start_time, time_seconds, vlines, spans,
                   summary, savedB>>
    /\ UNCHANGED varsA

\* lines 97-98: no FAILURE row, or no phase column
NoFailure ==
    /\ pcB = "failure"
    /\ FailurePoint(metrics_df, has_phase) = <<>>
    /\ pcB' = "save"
    /\ UNCHANGED <<metrics_df, has_phase, phases_df, start_time, time_seconds, vlines, spans,
                   annotation, summary, savedB>>
    /\ UNCHANGED varsA

\* lines 102-105
Save ==
    /\ pcB = "save"
    /\ savedB' = savedB \cup {"visualization.png"}
    /\ pcB' = "summary"
    /\ UNCHANGED <<metrics_df, has_phase, phases_df, start_time, time_seconds, vlines, spans,
                   annotation, summary>>
    /\ UNCHANGED varsA

SummaryLine(what, value) == [what |-> what, value |-> value]

\* lines 108-114
Summary ==
    /\ pcB = "summary"
    /\ summary' =
          << SummaryLine("Total test duration", MaxOf({time_seconds[i] : i \in 1..Len(time_seconds)})),
             SummaryLine("Peak throughput", MaxOf(Column(metrics_df, "throughput"))),
             SummaryLine("Maximum latency", MaxOf(Column(metrics_df, "avg_latency_ms"))) >>
          \o (IF FailurePoint(metrics_df, has_phase) # <<>>
              THEN <<SummaryLine("Failure detected at workload",
                                 metrics_df[FailurePoint(metrics_df, has_phase)[1]].workload)>>
              ELSE <<>>)
    /\ pcB' = "done"
    /\ UNCHANGED <<metrics_df, has_phase, phases_df, start_time, time_seconds, vlines, spans,
                   annotation, savedB>>
    /\ UNCHANGED varsA

NextB == Load \/ PlotSeries \/ AnnotatePhases \/ ShadePairs \/ ShadeLast \/ NoPhases
         \/ AnnotateFailure \/ NoFailure \/ Save \/ Summary

\* the rows of a metrics file, and the same rows of a file with no phase column
MetricDomain ==
    { Metric(5, 100, 5, 10, "WARMUP"),
      Metric(20, 80, 9, 30, "FAILURE"),
      Metric(30, 40, 20, 40, "FAILURE"),
      Metric(65, 90, 6, 20, "MITIGATION") }

NoPhaseColumn(S) == {[r EXCEPT !.phase = ""] : r \in S}

\* the rows of a phase-transitions file
PhaseDomain ==
    { Transition(5, "WARMUP"),
      Transition(35, "FAILURE"),
      Transition(80, "MITIGATION"),
      Transition(0, "CUSTOM") }

InitB ==
    /\ has_phase \in BOOLEAN
    /\ metrics_df \in BoundedSeq(IF has_phase THEN MetricDomain ELSE NoPhaseColumn(MetricDomain),
                                 MaxMetricRows) \ {<<>>}
    /\ phases_df \in BoundedSeq(PhaseDomain, MaxPhases)
    /\ pcB = "load" /\ start_time = 0 /\ time_seconds = <<>> /\ vlines = <<>> /\ spans = <<>>
    /\ annotation = <<>> /\ summary = <<>> /\ savedB = {}
    /\ argv = <<>> /\ rows = <<>> /\ strict = FALSE /\ pc = "idle"
    /\ idx = 1 /\ data_by_type = <<>> /\ ts_str = <<>> /\ todo = <<>>
    /\ series = <<>> /\ outputs = <<>> /\ written = {} /\ stdout = <<>> /\ exit_code = -1

SpecB == InitB /\ [][NextB]_vars

(***************************************************************************)
(* Plotter B: the claims                                                   *)
(***************************************************************************)
Shaded == pcB \in {"failure", "save", "summary", "done"}

PhasesSorted ==
    \A i \in 1..(Len(phases_df) - 1) : phases_df[i].timestamp <= phases_df[i + 1].timestamp

\* the first and the last instant of the metrics file
EarliestMetric == CHOOSE t \in Column(metrics_df, "timestamp") :
                      \A i \in 1..Len(metrics_df) : t <= metrics_df[i].timestamp

LatestMetric == CHOOSE t \in Column(metrics_df, "timestamp") :
                    \A i \in 1..Len(metrics_df) : metrics_df[i].timestamp <= t

\* C8: n >= 1 sorted transitions give exactly n shaded intervals: phase i over
\* [t_i, t_(i+1)) in its colour, the last phase from t_n to the end of the
\* metrics; every interval has start <= end, none overlaps another, and
\* together they cover exactly t_1 .. end of the metrics.  n = 0: no interval.
C8_PhaseShading ==
    (Shaded /\ PhasesSorted) =>
        LET n == Len(phases_df)
            rel(i) == phases_df[i].timestamp - EarliestMetric
            endT == LatestMetric - EarliestMetric
        IN /\ Len(spans) = n
           /\ \A i \in 1..(n - 1) :
                 spans[i] = [start |-> rel(i), end |-> rel(i + 1),
                             color |-> PhaseColor(phases_df[i].phase)]
           /\ n >= 1 => spans[n] = [start |-> rel(n), end |-> endT,
                                    color |-> PhaseColor(phases_df[n].phase)]
           /\ \A i \in 1..n : spans[i].start <= spans[i].end
           /\ \A i \in 1..n : \A j \in (i + 1)..n : spans[i].end <= spans[j].start
           /\ \A i \in 1..(n - 1) : spans[i].end = spans[i + 1].start

FailureRows == {i \in 1..Len(metrics_df) : has_phase /\ metrics_df[i].phase = "FAILURE"}

FailureLines == {k \in 1..Len(summary) : summary[k].what = "Failure detected at workload"}

\* C9: with a phase column and a FAILURE row, the row annotated is the first
\* FAILURE row of the file and the summary reports that row's workload; with
\* no phase column or no FAILURE row nothing is annotated and no failure line
\* is printed.
C9_FailureDetection ==
    pcB \in {"save", "summary", "done"} =>
        IF FailureRows # {}
        THEN LET f == CHOOSE i \in FailureRows : \A j \in FailureRows : i <= j
             IN /\ annotation = << [row |-> f,
                                    text |-> metrics_df[f].workload,
                                    x |-> metrics_df[f].timestamp - EarliestMetric,
                                    y |-> metrics_df[f].throughput] >>
                /\ pcB = "done" =>
                      /\ Cardinality(FailureLines) = 1
                      /\ \A k \in FailureLines : summary[k].value = metrics_df[f].workload
        ELSE /\ annotation = <<>>
             /\ FailureLines = {}
             /\ pcB = "done" => savedB = {"visualization.png"}

\* C9's case: two FAILURE rows of different workloads, the later one first in
\* time but second in the file, and the run has printed its summary.
C9_Witness ==
    /\ pcB = "done" /\ has_phase /\ Len(metrics_df) = 3
    /\ metrics_df[2].phase = "FAILURE" /\ metrics_df[3].phase = "FAILURE"
    /\ metrics_df[2].workload # metrics_df[3].workload
    /\ metrics_df[3].timestamp < metrics_df[2].timestamp
    /\ annotation # <<>> /\ annotation[1].row = 2

\* C10: start_time is the earliest metrics timestamp whatever the row order:
\* every row has time_seconds >= 0 and one has 0; every transition is drawn
\* at its timestamp minus that start_time; the reported duration is the
\* latest minus the earliest metrics timestamp.
C10_TimeOrigin ==
    pcB # "load" =>
        /\ start_time = EarliestMetric
        /\ Len(time_seconds) = Len(metrics_df)
        /\ \A i \in 1..Len(metrics_df) :
              /\ time_seconds[i] = metrics_df[i].timestamp - start_time
              /\ time_seconds[i] >= 0
        /\ \E i \in 1..Len(metrics_df) : time_seconds[i] = 0
        /\ pcB \notin {"plot", "annotate"} =>
              /\ Len(vlines) = Len(phases_df)
              /\ \A k \in 1..Len(phases_df) :
                    vlines[k].x = phases_df[k].timestamp - EarliestMetric
        /\ pcB = "done" =>
              /\ summary[1].what = "Total test duration"
              /\ summary[1].value = LatestMetric - EarliestMetric

\* C10's case: the rows are not in time order (the first is the latest), a
\* transition lies before the first metrics row, and the summary is printed.
C10_Witness ==
    /\ pcB = "done" /\ Len(metrics_df) >= 2 /\ Len(phases_df) >= 1
    /\ \A i \in 2..Len(metrics_df) : metrics_df[i].timestamp < metrics_df[1].timestamp
    /\ vlines[1].x < 0
    /\ summary[1].value > 0

====
